---- MODULE Spec2Model ----
(***************************************************************************)
(* Knock-Knock: self-service IP allow list.                                *)
(*                                                                         *)
(* The threads share the record store (SQLite table access_requests) and   *)
(* the router client (UnifiClient): the request handlers (index/grant,     *)
(* revoke, extend in app.py), each running in a thread of its own with     *)
(* nothing to serialise them, and the background sweeper                   *)
(* (cleanup_expired_ips, scheduled by APScheduler).  Each blocking call    *)
(* (HTTP request to the router, SQL statement) is one step.                *)
(*                                                                         *)
(* Time is in seconds.  `now` is the true (UTC) clock; `tz` is the offset  *)
(* of the host's local time, since the code mixes datetime.now(),          *)
(* datetime.now(timezone.utc) and datetime.utcnow().timestamp().           *)
(***************************************************************************)
EXTENDS Integers, Sequences, FiniteSets, TLC

VARIABLES
    now,          \* true clock, seconds (UTC epoch)
    tz,           \* local-time offset of the host, seconds (environment)
    ticks,        \* number of clock advances so far (bounds the run)
    store,        \* committed rows of access_requests, in rowid order
    swTxn,        \* a sweeper connection holds the write lock: the one of the
                  \* running cycle, or one a failed cycle left unclosed
    swView,       \* the table as the sweeper's open transaction sees it
    rdLeak,       \* the cursor of a request that ended with an exception still
                  \* holds its read lock, until the garbage collector finds it
    group,        \* router side: members of the firewall group
    cookie,       \* UnifiClient.session cookie jar: the TOKEN cookie
    csrf_token,   \* UnifiClient.csrf_token
    token_expiry, \* UnifiClient.token_expiry
    logins,       \* number of tokens the router has issued
    fails,        \* number of router calls that failed so far
    pc,           \* position of each thread
    loc,          \* locals of each thread
    opsLeft,      \* foreground requests the run may still start (bounds the run)
    sweeps,       \* number of sweeper cycles completed
    last,         \* outcome of the last completed foreground request
    hist,         \* per address: the last foreground request started on it
    swg,          \* record of the running sweeper cycle
    parsed        \* last call of get_expiration_delta made on its own

vars == <<now, tz, ticks, store, swTxn, swView, rdLeak, group, cookie, csrf_token,
          token_expiry, logins, fails, pc, loc, opsLeft, sweeps, last, hist, swg,
          parsed>>

(***************************************************************************)
(* Bounds of the exploration.                                              *)
(***************************************************************************)
MaxOps == 2
MaxSweeps == 1
MaxTicks == 1
MaxFails == 1
MaxLen == 3

(***************************************************************************)
(* Program constants.                                                      *)
(***************************************************************************)
Minute == 60
Hour == 3600
Day == 86400
Skew == 30
Week == 7 * Day
Month == 30 * Day
Year == 365 * Day

(***************************************************************************)
(* Environment.                                                            *)
(***************************************************************************)
Addresses == {"10.0.0.1", "10.0.0.2"}
Email == "test@example.com"
TzOffsets == {0 - 2 * Hour, 0, 2 * Hour}
StartTime == 19000 * Day + 22 * Hour
TickSteps == {61 * Minute}
TokenLife == Hour
\* the server runs each request in a thread of its own: up to two requests are
\* in flight at a time, beside the scheduler's thread
FgThreads == {"fg", "fg2"}
Threads == FgThreads \cup {"sw"}

\* Strings the parser looks into are tuples of one-character strings.
EXPIRATION_OPTIONS == {<<"1", "h">>, <<"0", "f">>}

(***************************************************************************)
(* Optional values.                                                        *)
(***************************************************************************)
None == [some |-> FALSE, v |-> 0]
Some(n) == [some |-> TRUE, v |-> n]

(***************************************************************************)
(* get_expiration_delta (app.py 129-149).                                  *)
(***************************************************************************)
\* A character outside ASCII is written by its code point.  The pattern's \d
\* is the class of Unicode decimal digits (category Nd), and int() takes each
\* of them at its digit value: the class is made of the ASCII digits and of
\* the runs of ten listed in UnicodeDigits, each from its ZERO to its NINE.
DigitChars == <<"0", "1", "2", "3", "4", "5", "6", "7", "8", "9">>
UnicodeDigits == <<
    <<"U+0660", "U+0661", "U+0662", "U+0663", "U+0664", "U+0665", "U+0666", "U+0667", "U+0668", "U+0669">>,
    <<"U+06F0", "U+06F1", "U+06F2", "U+06F3", "U+06F4", "U+06F5", "U+06F6", "U+06F7", "U+06F8", "U+06F9">>,
    <<"U+07C0", "U+07C1", "U+07C2", "U+07C3", "U+07C4", "U+07C5", "U+07C6", "U+07C7", "U+07C8", "U+07C9">>,
    <<"U+0966", "U+0967", "U+0968", "U+0969", "U+096A", "U+096B", "U+096C", "U+096D", "U+096E", "U+096F">>,
    <<"U+09E6", "U+09E7", "U+09E8", "U+09E9", "U+09EA", "U+09EB", "U+09EC", "U+09ED", "U+09EE", "U+09EF">>,
    <<"U+0A66", "U+0A67", "U+0A68", "U+0A69", "U+0A6A", "U+0A6B", "U+0A6C", "U+0A6D", "U+0A6E", "U+0A6F">>,
    <<"U+0AE6", "U+0AE7", "U+0AE8", "U+0AE9", "U+0AEA", "U+0AEB", "U+0AEC", "U+0AED", "U+0AEE", "U+0AEF">>,
    <<"U+0B66", "U+0B67", "U+0B68", "U+0B69", "U+0B6A", "U+0B6B", "U+0B6C", "U+0B6D", "U+0B6E", "U+0B6F">>,
    <<"U+0BE6", "U+0BE7", "U+0BE8", "U+0BE9", "U+0BEA", "U+0BEB", "U+0BEC", "U+0BED", "U+0BEE", "U+0BEF">>,
    <<"U+0C66", "U+0C67", "U+0C68", "U+0C69", "U+0C6A", "U+0C6B", "U+0C6C", "U+0C6D", "U+0C6E", "U+0C6F">>,
    <<"U+0CE6", "U+0CE7", "U+0CE8", "U+0CE9", "U+0CEA", "U+0CEB", "U+0CEC", "U+0CED", "U+0CEE", "U+0CEF">>,
    <<"U+0D66", "U+0D67", "U+0D68", "U+0D69", "U+0D6A", "U+0D6B", "U+0D6C", "U+0D6D", "U+0D6E", "U+0D6F">>,
    <<"U+0DE6", "U+0DE7", "U+0DE8", "U+0DE9", "U+0DEA", "U+0DEB", "U+0DEC", "U+0DED", "U+0DEE", "U+0DEF">>,
    <<"U+0E50", "U+0E51", "U+0E52", "U+0E53", "U+0E54", "U+0E55", "U+0E56", "U+0E57", "U+0E58", "U+0E59">>,
    <<"U+0ED0", "U+0ED1", "U+0ED2", "U+0ED3", "U+0ED4", "U+0ED5", "U+0ED6", "U+0ED7", "U+0ED8", "U+0ED9">>,
    <<"U+0F20", "U+0F21", "U+0F22", "U+0F23", "U+0F24", "U+0F25", "U+0F26", "U+0F27", "U+0F28", "U+0F29">>,
    <<"U+1040", "U+1041", "U+1042", "U+1043", "U+1044", "U+1045", "U+1046", "U+1047", "U+1048", "U+1049">>,
    <<"U+1090", "U+1091", "U+1092", "U+1093", "U+1094", "U+1095", "U+1096", "U+1097", "U+1098", "U+1099">>,
    <<"U+17E0", "U+17E1", "U+17E2", "U+17E3", "U+17E4", "U+17E5", "U+17E6", "U+17E7", "U+17E8", "U+17E9">>,
    <<"U+1810", "U+1811", "U+1812", "U+1813", "U+1814", "U+1815", "U+1816", "U+1817", "U+1818", "U+1819">>,
    <<"U+1946", "U+1947", "U+1948", "U+1949", "U+194A", "U+194B", "U+194C", "U+194D", "U+194E", "U+194F">>,
    <<"U+19D0", "U+19D1", "U+19D2", "U+19D3", "U+19D4", "U+19D5", "U+19D6", "U+19D7", "U+19D8", "U+19D9">>,
    <<"U+1A80", "U+1A81", "U+1A82", "U+1A83", "U+1A84", "U+1A85", "U+1A86", "U+1A87", "U+1A88", "U+1A89">>,
    <<"U+1A90", "U+1A91", "U+1A92", "U+1A93", "U+1A94", "U+1A95", "U+1A96", "U+1A97", "U+1A98", "U+1A99">>,
    <<"U+1B50", "U+1B51", "U+1B52", "U+1B53", "U+1B54", "U+1B55", "U+1B56", "U+1B57", "U+1B58", "U+1B59">>,
    <<"U+1BB0", "U+1BB1", "U+1BB2", "U+1BB3", "U+1BB4", "U+1BB5", "U+1BB6", "U+1BB7", "U+1BB8", "U+1BB9">>,
    <<"U+1C40", "U+1C41", "U+1C42", "U+1C43", "U+1C44", "U+1C45", "U+1C46", "U+1C47", "U+1C48", "U+1C49">>,
    <<"U+1C50", "U+1C51", "U+1C52", "U+1C53", "U+1C54", "U+1C55", "U+1C56", "U+1C57", "U+1C58", "U+1C59">>,
    <<"U+A620", "U+A621", "U+A622", "U+A623", "U+A624", "U+A625", "U+A626", "U+A627", "U+A628", "U+A629">>,
    <<"U+A8D0", "U+A8D1", "U+A8D2", "U+A8D3", "U+A8D4", "U+A8D5", "U+A8D6", "U+A8D7", "U+A8D8", "U+A8D9">>,
    <<"U+A900", "U+A901", "U+A902", "U+A903", "U+A904", "U+A905", "U+A906", "U+A907", "U+A908", "U+A909">>,
    <<"U+A9D0", "U+A9D1", "U+A9D2", "U+A9D3", "U+A9D4", "U+A9D5", "U+A9D6", "U+A9D7", "U+A9D8", "U+A9D9">>,
    <<"U+A9F0", "U+A9F1", "U+A9F2", "U+A9F3", "U+A9F4", "U+A9F5", "U+A9F6", "U+A9F7", "U+A9F8", "U+A9F9">>,
    <<"U+AA50", "U+AA51", "U+AA52", "U+AA53", "U+AA54", "U+AA55", "U+AA56", "U+AA57", "U+AA58", "U+AA59">>,
    <<"U+ABF0", "U+ABF1", "U+ABF2", "U+ABF3", "U+ABF4", "U+ABF5", "U+ABF6", "U+ABF7", "U+ABF8", "U+ABF9">>,
    <<"U+FF10", "U+FF11", "U+FF12", "U+FF13", "U+FF14", "U+FF15", "U+FF16", "U+FF17", "U+FF18", "U+FF19">>,
    <<"U+104A0", "U+104A1", "U+104A2", "U+104A3", "U+104A4", "U+104A5", "U+104A6", "U+104A7", "U+104A8", "U+104A9">>,
    <<"U+10D30", "U+10D31", "U+10D32", "U+10D33", "U+10D34", "U+10D35", "U+10D36", "U+10D37", "U+10D38", "U+10D39">>,
    <<"U+11066", "U+11067", "U+11068", "U+11069", "U+1106A", "U+1106B", "U+1106C", "U+1106D", "U+1106E", "U+1106F">>,
    <<"U+110F0", "U+110F1", "U+110F2", "U+110F3", "U+110F4", "U+110F5", "U+110F6", "U+110F7", "U+110F8", "U+110F9">>,
    <<"U+11136", "U+11137", "U+11138", "U+11139", "U+1113A", "U+1113B", "U+1113C", "U+1113D", "U+1113E", "U+1113F">>,
    <<"U+111D0", "U+111D1", "U+111D2", "U+111D3", "U+111D4", "U+111D5", "U+111D6", "U+111D7", "U+111D8", "U+111D9">>,
    <<"U+112F0", "U+112F1", "U+112F2", "U+112F3", "U+112F4", "U+112F5", "U+112F6", "U+112F7", "U+112F8", "U+112F9">>,
    <<"U+11450", "U+11451", "U+11452", "U+11453", "U+11454", "U+11455", "U+11456", "U+11457", "U+11458", "U+11459">>,
    <<"U+114D0", "U+114D1", "U+114D2", "U+114D3", "U+114D4", "U+114D5", "U+114D6", "U+114D7", "U+114D8", "U+114D9">>,
    <<"U+11650", "U+11651", "U+11652", "U+11653", "U+11654", "U+11655", "U+11656", "U+11657", "U+11658", "U+11659">>,
    <<"U+116C0", "U+116C1", "U+116C2", "U+116C3", "U+116C4", "U+116C5", "U+116C6", "U+116C7", "U+116C8", "U+116C9">>,
    <<"U+11730", "U+11731", "U+11732", "U+11733", "U+11734", "U+11735", "U+11736", "U+11737", "U+11738", "U+11739">>,
    <<"U+118E0", "U+118E1", "U+118E2", "U+118E3", "U+118E4", "U+118E5", "U+118E6", "U+118E7", "U+118E8", "U+118E9">>,
    <<"U+11950", "U+11951", "U+11952", "U+11953", "U+11954", "U+11955", "U+11956", "U+11957", "U+11958", "U+11959">>,
    <<"U+11C50", "U+11C51", "U+11C52", "U+11C53", "U+11C54", "U+11C55", "U+11C56", "U+11C57", "U+11C58", "U+11C59">>,
    <<"U+11D50", "U+11D51", "U+11D52", "U+11D53", "U+11D54", "U+11D55", "U+11D56", "U+11D57", "U+11D58", "U+11D59">>,
    <<"U+11DA0", "U+11DA1", "U+11DA2", "U+11DA3", "U+11DA4", "U+11DA5", "U+11DA6", "U+11DA7", "U+11DA8", "U+11DA9">>,
    <<"U+16A60", "U+16A61", "U+16A62", "U+16A63", "U+16A64", "U+16A65", "U+16A66", "U+16A67", "U+16A68", "U+16A69">>,
    <<"U+16AC0", "U+16AC1", "U+16AC2", "U+16AC3", "U+16AC4", "U+16AC5", "U+16AC6", "U+16AC7", "U+16AC8", "U+16AC9">>,
    <<"U+16B50", "U+16B51", "U+16B52", "U+16B53", "U+16B54", "U+16B55", "U+16B56", "U+16B57", "U+16B58", "U+16B59">>,
    <<"U+1D7CE", "U+1D7CF", "U+1D7D0", "U+1D7D1", "U+1D7D2", "U+1D7D3", "U+1D7D4", "U+1D7D5", "U+1D7D6", "U+1D7D7">>,
    <<"U+1D7D8", "U+1D7D9", "U+1D7DA", "U+1D7DB", "U+1D7DC", "U+1D7DD", "U+1D7DE", "U+1D7DF", "U+1D7E0", "U+1D7E1">>,
    <<"U+1D7E2", "U+1D7E3", "U+1D7E4", "U+1D7E5", "U+1D7E6", "U+1D7E7", "U+1D7E8", "U+1D7E9", "U+1D7EA", "U+1D7EB">>,
    <<"U+1D7EC", "U+1D7ED", "U+1D7EE", "U+1D7EF", "U+1D7F0", "U+1D7F1", "U+1D7F2", "U+1D7F3", "U+1D7F4", "U+1D7F5">>,
    <<"U+1D7F6", "U+1D7F7", "U+1D7F8", "U+1D7F9", "U+1D7FA", "U+1D7FB", "U+1D7FC", "U+1D7FD", "U+1D7FE", "U+1D7FF">>,
    <<"U+1E140", "U+1E141", "U+1E142", "U+1E143", "U+1E144", "U+1E145", "U+1E146", "U+1E147", "U+1E148", "U+1E149">>,
    <<"U+1E2F0", "U+1E2F1", "U+1E2F2", "U+1E2F3", "U+1E2F4", "U+1E2F5", "U+1E2F6", "U+1E2F7", "U+1E2F8", "U+1E2F9">>,
    <<"U+1E950", "U+1E951", "U+1E952", "U+1E953", "U+1E954", "U+1E955", "U+1E956", "U+1E957", "U+1E958", "U+1E959">>,
    <<"U+1FBF0", "U+1FBF1", "U+1FBF2", "U+1FBF3", "U+1FBF4", "U+1FBF5", "U+1FBF6", "U+1FBF7", "U+1FBF8", "U+1FBF9">> >>
DigitSet ==
    {DigitChars[i] : i \in 1..10}
        \cup UNION {{UnicodeDigits[b][i] : i \in 1..10} : b \in 1..Len(UnicodeDigits)}
IsDigit(c) == c \in DigitSet
DigitVal(c) ==
    (CHOOSE i \in 1..10 :
        DigitChars[i] = c \/ \E b \in 1..Len(UnicodeDigits) : UnicodeDigits[b][i] = c) - 1

RECURSIVE DigitRun(_, _)
\* length of the run of digits of s starting at position i (the greedy \d+)
DigitRun(s, i) ==
    IF i <= Len(s) /\ IsDigit(s[i]) THEN 1 + DigitRun(s, i + 1) ELSE 0

RECURSIVE ParseInt(_, _)
\* int() of the first k characters of s
ParseInt(s, k) ==
    IF k = 0 THEN 0 ELSE 10 * ParseInt(s, k - 1) + DigitVal(s[k])

mapping(unit, n) ==
    CASE unit = "h" -> n * Hour
      [] unit = "d" -> n * Day
      [] unit = "w" -> n * Week
      [] unit = "m" -> n * Month
      [] unit = "y" -> n * Year
      [] OTHER -> Day

get_expiration_delta(duration) ==
    IF duration = <<"0", "f">> THEN None
    ELSE LET k == DigitRun(duration, 1) IN
         IF k >= 1 /\ Len(duration) > k /\ duration[k + 1] \in {"h", "d", "w", "m", "y"}
         THEN Some(mapping(duration[k + 1], ParseInt(duration, k)))
         ELSE Some(Day)

\* the tokens the function is called with on its own: every string of up to
\* MaxLen characters over digits (ASCII and not), unit letters, "f" and a
\* letter that is no unit
TokenChars == {"0", "1", "2", "U+0663", "h", "d", "w", "m", "y", "f", "x"}
Tokens == UNION {[1..n -> TokenChars] : n \in 0..MaxLen}

(***************************************************************************)
(* Timestamps as SQLite stores and compares them.  The column holds TEXT:  *)
(* a datetime bound as a parameter is adapted with isoformat(" "), the     *)
(* string written by extend is isoformat() with the "T" separator.  A text *)
(* is described by its wall-clock value, its separator and whether it      *)
(* carries the "+00:00" suffix of an aware datetime.                       *)
(***************************************************************************)
NULL == [null |-> TRUE, t |-> 0, sep |-> " ", aware |-> FALSE]
adapt_datetime(t, aware) == [null |-> FALSE, t |-> t, sep |-> " ", aware |-> aware]
isoformat(t, aware) == [null |-> FALSE, t |-> t, sep |-> "T", aware |-> aware]
fromisoformat(x) == x.t

DateOf(t) == t \div Day
TimeOf(t) == t % Day

\* x < y on two non-NULL texts "YYYY-MM-DD<sep>HH:MM:SS[+00:00]" (memcmp order)
TextLess(x, y) ==
    IF DateOf(x.t) # DateOf(y.t) THEN DateOf(x.t) < DateOf(y.t)
    ELSE IF x.sep # y.sep THEN x.sep = " "
    ELSE IF TimeOf(x.t) # TimeOf(y.t) THEN TimeOf(x.t) < TimeOf(y.t)
    ELSE (~x.aware) /\ y.aware

\* SQL: expiration < ?   (NULL compares as unknown, the row is not selected)
SqlLess(x, y) == (~x.null) /\ (~y.null) /\ TextLess(x, y)

\* datetime.now(): naive local wall clock
LocalNow == now + tz
\* datetime.now(timezone.utc): aware UTC wall clock
UtcNow == now
\* datetime.utcnow().timestamp(): the naive UTC wall clock read as local time
UtcNowTimestamp == now - tz

(***************************************************************************)
(* State after construction: empty table (init_db), UnifiClient.__init__   *)
(* with no token, every thread idle.                                       *)
(***************************************************************************)
NoToken == [id |-> 0, exp |-> 0]

\* rdlock: the thread's connection holds a read lock on the database file
\* answer: the TOKEN cookie of the login answer that is on its way to the thread
\* authed notes how the thread's last ensure_authenticated ended: "valid" (no
\* login, and the clock is before token_expiry - Skew), "skipped" (no login
\* although it is not), "login" (login completed), "failed" (login failed)
LocInit == [op |-> "none", ip |-> "", duration |-> <<>>, exp |-> NULL, members |-> {},
            hdr |-> 0, answer |-> NoToken, decoded |-> NoToken, ret |-> "", rest |-> <<>>, prior |-> "",
            authed |-> "none", rdlock |-> FALSE]

\* ended says how the last cycle that came to an end left cleanup_expired_ips:
\* "returned", or the name of the exception that escaped it
SwgInit == [ok |-> TRUE, failed |-> {}, called |-> {}, revoked |-> {},
            due |-> {}, touched |-> {}, selected |-> {}, raised |-> {}, ended |-> "none"]

NoParse == [called |-> FALSE, token |-> <<>>, delta |-> None]

NoResult == [op |-> "none", ip |-> "", outcome |-> "", prior |-> ""]

\* zones: the offsets the host's local time may have; n: the request budget
InitWith(zones, n) ==
    /\ now = StartTime
    /\ tz \in zones
    /\ ticks = 0
    /\ store = <<>>
    /\ swTxn = FALSE
    /\ swView = <<>>
    /\ rdLeak = FALSE
    /\ group = {}
    /\ cookie = NoToken
    /\ csrf_token = 0
    /\ token_expiry = 0
    /\ logins = 0
    /\ fails = 0
    /\ pc = [t \in Threads |-> "idle"]
    /\ loc = [t \in Threads |-> LocInit]
    /\ opsLeft = n
    /\ sweeps = 0
    /\ last = NoResult
    /\ hist = [a \in Addresses |-> "none"]
    /\ swg = SwgInit
    /\ parsed = NoParse

Init == InitWith(TzOffsets, MaxOps)

(***************************************************************************)
(* Helpers on the table.                                                   *)
(***************************************************************************)
Row(ip, exp) == [email |-> Email, ip |-> ip, exp |-> exp]
RowsOf(tbl, ip) == {i \in 1..Len(tbl) : tbl[i].ip = ip}
HasRow(tbl, ip) == RowsOf(tbl, ip) # {}

\* SELECT ... WHERE expiration < ?  with ? = datetime.now()
Expired(r) == SqlLess(r.exp, adapt_datetime(LocalNow, FALSE))
NotExpired(r) == ~Expired(r)

RECURSIVE IpsOf(_)
IpsOf(tbl) == IF tbl = <<>> THEN <<>> ELSE <<Head(tbl).ip>> \o IpsOf(Tail(tbl))

\* the table as the sweeper's connection reads it
SwDb == IF swTxn THEN swView ELSE store

\* a request thread other than t sits between extend's SELECT and its UPDATE
\* with rows of its cursor not yet fetched, or such a cursor was left behind
\* by an extend that raised: its connection holds a read lock, and a commit
\* on another connection waits for it, up to sqlite3's timeout
ReadLocked(t) ==
    \/ rdLeak
    \/ \E u \in FgThreads \ {t} : pc[u] = "update" /\ loc[u].rdlock

\* what becomes of rdLeak when a commit gives up waiting: the collector may
\* run at any time
ReadRelease == IF rdLeak THEN BOOLEAN ELSE {FALSE}

\* positions of a request between its INSERT, UPDATE or DELETE and its commit:
\* the request's connection holds the write lock of the database file
CommitPcs == {"insert_commit", "update_commit", "revoke_commit"}

\* cleanup_expired_ips ended with the exception of its commit and never closed
\* its connection: the connection keeps its lock, against readers too, until
\* the garbage collector finds it
Leaked == swTxn /\ pc["sw"] = "idle"

\* a connection other than t's holds the write lock: a statement of t that
\* needs the lock waits for it, and raises "database is locked" when the lock
\* outlasts sqlite3's timeout
WriteHeld(t) ==
    \/ swTxn /\ (t # "sw" \/ Leaked)
    \/ \E u \in FgThreads \ {t} : pc[u] \in CommitPcs

\* what becomes of swTxn while a statement waits in vain: the collector may
\* close a leaked connection at any time
Release == IF Leaked THEN BOOLEAN ELSE {swTxn}

(***************************************************************************)
(* The router as the client sees it: a request is accepted only with a     *)
(* live session cookie, a write only with the matching anti-forgery header.*)
(* Any request may also fail at the transport level; fails counts every    *)
(* failed request, and only MaxFails of them may be transport failures of  *)
(* a request the router would have accepted.                               *)
(***************************************************************************)
SessionValid == cookie.id # 0 /\ now < cookie.exp
WriteValid(h) == SessionValid /\ h = cookie.id
MayFail(accepted) == (~accepted) \/ fails < MaxFails

(***************************************************************************)
(* Clock.  Time advances in steps of TickSteps; a foreground request is    *)
(* short against such a step and completes within it, while a sweeper      *)
(* cycle may span one (its SELECT and each DELETE read the clock anew).    *)
(***************************************************************************)
Tick ==
    /\ \A t \in FgThreads : pc[t] = "idle"
    /\ ticks < MaxTicks
    /\ \E d \in TickSteps : now' = now + d
    /\ ticks' = ticks + 1
    /\ UNCHANGED <<parsed, rdLeak, tz, store, swTxn, swView, group, cookie, csrf_token,
                   token_expiry, logins, fails, pc, loc, opsLeft, sweeps, last, hist, swg>>

(***************************************************************************)
(* Completion of a foreground request: the handler returns (or raises) and *)
(* the outcome the caller sees is recorded: the flashed result (granted,   *)
(* already_present, revoked, extended), "silent" for a redirect with no    *)
(* message, or the name of the exception that escapes the handler.         *)
(***************************************************************************)
Finish(t, outcome) ==
    /\ last' = [op |-> loc[t].op, ip |-> loc[t].ip, outcome |-> outcome,
                prior |-> loc[t].prior]
    /\ hist' = [hist EXCEPT ![loc[t].ip] = outcome]
    /\ pc' = [pc EXCEPT ![t] = "idle"]
    /\ loc' = [loc EXCEPT ![t] = LocInit]

\* a foreground request on ip starts: note it in the running sweeper cycle
Touch(ip) == IF pc["sw"] # "idle" THEN [swg EXCEPT !.touched = @ \cup {ip}] ELSE swg

(***************************************************************************)
(* UnifiClient.ensure_authenticated and login (unifi.py 46-84), run by     *)
(* either thread.  loc[t].ret says where the caller continues.             *)
(***************************************************************************)
TokenStale == token_expiry = 0 \/ UtcNowTimestamp > token_expiry - Skew

\* the sweeper enters remove_ip for the next selected address, or commits
SwNextPc(l) == IF l.rest = <<>> THEN "commit" ELSE "auth"
SwNextLoc(l) ==
    IF l.rest = <<>> THEN [l EXCEPT !.ip = "", !.members = {}, !.hdr = 0, !.authed = "none"]
    ELSE [l EXCEPT !.ip = Head(l.rest), !.rest = Tail(l.rest), !.ret = "hdr",
                   !.members = {}, !.hdr = 0, !.authed = "none"]
SwNextCalled(l, g) ==
    IF l.rest = <<>> THEN g ELSE [g EXCEPT !.called = @ \cup {Head(l.rest)}]

\* ensure_authenticated returns to its caller; a says how it ended
AuthReturn(t, a) ==
    IF loc[t].ret = "first"
    THEN /\ pc' = [pc EXCEPT ![t] = SwNextPc(loc[t])]
         /\ loc' = [loc EXCEPT ![t] =
                      SwNextLoc([loc[t] EXCEPT !.decoded = NoToken, !.authed = a])]
         /\ swg' = SwNextCalled(loc[t], swg)
    ELSE /\ pc' = [pc EXCEPT ![t] = "hdr"]
         /\ loc' = [loc EXCEPT ![t].decoded = NoToken, ![t].authed = a]
         /\ swg' = swg

\* the clock is before the held token's expiry less the skew
BeforeSkew == token_expiry # 0 /\ now < token_expiry - Skew

EnsureAuthenticated(t) ==
    /\ pc[t] = "auth"
    /\ IF TokenStale
       THEN /\ pc' = [pc EXCEPT ![t] = "login_post"]
            /\ UNCHANGED <<loc, swg>>
       ELSE AuthReturn(t, IF BeforeSkew THEN "valid" ELSE "skipped")
    /\ UNCHANGED <<parsed, rdLeak, now, tz, ticks, store, swTxn, swView, group, cookie, csrf_token,
                   token_expiry, logins, fails, opsLeft, sweeps, last, hist>>

\* session.post sends the request: the router issues a token, and its answer
\* is on its way while the thread waits inside session.post
LoginPost(t) ==
    /\ pc[t] = "login_post"
    /\ logins' = logins + 1
    /\ loc' = [loc EXCEPT ![t].answer = [id |-> logins + 1, exp |-> now + TokenLife]]
    /\ pc' = [pc EXCEPT ![t] = "login_answer"]
    /\ UNCHANGED <<parsed, rdLeak, now, tz, ticks, store, swTxn, swView, group, cookie, csrf_token,
                   token_expiry, fails, opsLeft, sweeps, last, hist, swg>>

\* session.post receives the answer: the jar of the shared session stores the
\* cookie of this answer, whatever it held, and raise_for_status passes
LoginPostOk(t) ==
    /\ pc[t] = "login_answer"
    /\ cookie' = loc[t].answer
    /\ loc' = [loc EXCEPT ![t].answer = NoToken]
    /\ pc' = [pc EXCEPT ![t] = "login_cookie"]
    /\ UNCHANGED <<parsed, rdLeak, now, tz, ticks, store, swTxn, swView, group, csrf_token,
                   token_expiry, logins, fails, opsLeft, sweeps, last, hist, swg>>

\* a variant of login that drops the held token when the request fails
LoginPostFailClears(t) ==
    /\ pc[t] = "login_post"
    /\ fails < MaxFails
    /\ fails' = fails + 1
    /\ csrf_token' = 0
    /\ token_expiry' = 0
    /\ pc' = [pc EXCEPT ![t] = IF loc[t].ret = "first" THEN SwNextPc(loc[t]) ELSE "hdr"]
    /\ loc' = [loc EXCEPT ![t] = IF loc[t].ret = "first"
                                 THEN SwNextLoc(loc[t])
                                 ELSE [loc[t] EXCEPT !.authed = "failed"]]
    /\ swg' = IF loc[t].ret = "first" THEN SwNextCalled(loc[t], swg) ELSE swg
    /\ UNCHANGED <<parsed, rdLeak, now, tz, ticks, store, swTxn, swView, group, cookie,
                   logins, opsLeft, sweeps, last, hist>>

\* session.post raises RequestException, the request does not reach the
\* router: logged, login returns normally
LoginPostFail(t) ==
    /\ pc[t] = "login_post"
    /\ fails < MaxFails
    /\ fails' = fails + 1
    /\ \E g \in {IF t = "sw" THEN [swg EXCEPT !.ok = FALSE] ELSE swg} :
          IF loc[t].ret = "first"
          THEN /\ pc' = [pc EXCEPT ![t] = SwNextPc(loc[t])]
               /\ loc' = [loc EXCEPT ![t] = SwNextLoc([loc[t] EXCEPT !.authed = "failed"])]
               /\ swg' = SwNextCalled(loc[t], g)
          ELSE /\ pc' = [pc EXCEPT ![t] = "hdr"]
               /\ loc' = [loc EXCEPT ![t].authed = "failed"]
               /\ swg' = g
    /\ UNCHANGED <<parsed, rdLeak, now, tz, ticks, store, swTxn, swView, group, cookie, csrf_token,
                   token_expiry, logins, opsLeft, sweeps, last, hist>>

\* token_cookie = cookies.get("TOKEN"); decoded_jwt = jwt.decode(token_cookie)
LoginCookie(t) ==
    /\ pc[t] = "login_cookie"
    /\ loc' = [loc EXCEPT ![t].decoded = cookie]
    /\ pc' = [pc EXCEPT ![t] = "login_csrf"]
    /\ UNCHANGED <<parsed, rdLeak, now, tz, ticks, store, swTxn, swView, group, cookie, csrf_token,
                   token_expiry, logins, fails, opsLeft, sweeps, last, hist, swg>>

LoginCsrf(t) ==
    /\ pc[t] = "login_csrf"
    /\ csrf_token' = loc[t].decoded.id
    /\ pc' = [pc EXCEPT ![t] = "login_exp"]
    /\ UNCHANGED <<parsed, rdLeak, now, tz, ticks, store, swTxn, swView, group, cookie,
                   token_expiry, logins, fails, loc, opsLeft, sweeps, last, hist, swg>>

LoginExp(t) ==
    /\ pc[t] = "login_exp"
    /\ token_expiry' = loc[t].decoded.exp
    /\ AuthReturn(t, "login")
    /\ UNCHANGED <<parsed, rdLeak, now, tz, ticks, store, swTxn, swView, group, cookie, csrf_token,
                   logins, fails, opsLeft, sweeps, last, hist>>

\* headers = {"x-csrf-token": self.csrf_token, ...}
Headers(t) ==
    /\ pc[t] = "hdr"
    /\ loc' = [loc EXCEPT ![t].hdr = csrf_token]
    /\ pc' = [pc EXCEPT ![t] = "get"]
    /\ UNCHANGED <<parsed, rdLeak, now, tz, ticks, store, swTxn, swView, group, cookie, csrf_token,
                   token_expiry, logins, fails, opsLeft, sweeps, last, hist, swg>>

(***************************************************************************)
(* Grant: index (app.py 362-385) calling UnifiClient.add_ip                *)
(* (unifi.py 86-131).                                                      *)
(***************************************************************************)
\* a request arrives and thread t takes it; the second thread takes one only
\* while the first is busy (which thread serves a request makes no difference)
CanStart(t) ==
    /\ pc[t] = "idle"
    /\ opsLeft > 0
    /\ t = "fg2" => pc["fg"] # "idle"

\* expiration is computed before the router is called
GrantExpiration(delta) ==
    IF ~delta.some THEN NULL ELSE adapt_datetime(UtcNow + delta.v, TRUE)

Grant(t, ip, duration) ==
    /\ CanStart(t)
    /\ opsLeft' = opsLeft - 1
    /\ pc' = [pc EXCEPT ![t] = "auth"]
    /\ loc' = [loc EXCEPT ![t] =
                 [LocInit EXCEPT !.op = "grant", !.ip = ip, !.ret = "hdr",
                                 !.duration = duration,
                                 !.exp = GrantExpiration(get_expiration_delta(duration)),
                                 !.prior = hist[ip]]]
    /\ hist' = [hist EXCEPT ![ip] = "pending"]
    /\ swg' = Touch(ip)
    /\ UNCHANGED <<parsed, rdLeak, now, tz, ticks, store, swTxn, swView, group, cookie, csrf_token,
                   token_expiry, logins, fails, sweeps, last>>

\* a variant of add_ip that writes the group on every call
AddIpAlwaysWrites(ip, members) == TRUE

\* add_ip line 109: the write is skipped when the address is already a member
AddIpAbsent(ip, members) == ip \notin members

\* a variant of index that inserts for every 200 response
IndexInsertsAny(status, was_added) == status = 200

\* index lines 372-373: a row is inserted only for a 200 response with was_added
IndexInserts(status, was_added) == status = 200 /\ was_added

\* a variant of add_ip whose failure path returns to index instead of raising
AddIpReturns(failed) == FALSE

\* add_ip's "return none, False" on a RequestException: the name none is
\* undefined, so the call raises NameError and index never sees a result
AddIpRaises(failed) == failed

\* GET of the group succeeds; a member gets the mock 200 response, was_added False
AddGetOk(t) ==
    /\ pc[t] = "get" /\ loc[t].op = "grant"
    /\ SessionValid
    /\ IF AddIpAbsent(loc[t].ip, group)
       THEN /\ loc' = [loc EXCEPT ![t].members = group]
            /\ pc' = [pc EXCEPT ![t] = "put"]
            /\ UNCHANGED <<last, hist>>
       ELSE IF IndexInserts(200, FALSE)
            THEN /\ pc' = [pc EXCEPT ![t] = "insert"]
                 /\ UNCHANGED <<loc, last, hist>>
            ELSE Finish(t, "already_present")
    /\ UNCHANGED <<parsed, rdLeak, now, tz, ticks, store, swTxn, swView, group, cookie, csrf_token,
                   token_expiry, logins, fails, opsLeft, sweeps, swg>>

\* GET of the group fails
AddGetFail(t) ==
    /\ pc[t] = "get" /\ loc[t].op = "grant"
    /\ MayFail(SessionValid)
    /\ fails' = fails + 1
    /\ IF AddIpRaises(TRUE)
       THEN Finish(t, "NameError")
       ELSE /\ pc' = [pc EXCEPT ![t] = "insert"]
            /\ UNCHANGED <<loc, last, hist>>
    /\ UNCHANGED <<parsed, rdLeak, now, tz, ticks, store, swTxn, swView, group, cookie, csrf_token,
                   token_expiry, logins, opsLeft, sweeps, swg>>

\* PUT of the whole membership list read earlier, with the address appended
AddPutOk(t) ==
    /\ pc[t] = "put" /\ loc[t].op = "grant"
    /\ WriteValid(loc[t].hdr)
    /\ group' = loc[t].members \cup {loc[t].ip}
    /\ IF IndexInserts(200, TRUE)
       THEN /\ pc' = [pc EXCEPT ![t] = "insert"]
            /\ UNCHANGED <<loc, last, hist>>
       ELSE Finish(t, "already_present")
    /\ UNCHANGED <<parsed, rdLeak, now, tz, ticks, store, swTxn, swView, cookie, csrf_token,
                   token_expiry, logins, fails, opsLeft, sweeps, swg>>

AddPutFail(t) ==
    /\ pc[t] = "put" /\ loc[t].op = "grant"
    /\ MayFail(WriteValid(loc[t].hdr))
    /\ fails' = fails + 1
    /\ IF AddIpRaises(TRUE)
       THEN Finish(t, "NameError")
       ELSE /\ pc' = [pc EXCEPT ![t] = "insert"]
            /\ UNCHANGED <<loc, last, hist>>
    /\ UNCHANGED <<parsed, rdLeak, now, tz, ticks, store, swTxn, swView, group, cookie, csrf_token,
                   token_expiry, logins, opsLeft, sweeps, swg>>

\* conn.commit() of a request, then close_db.  While another request holds a
\* read lock the commit waits; when that lock outlasts sqlite3's timeout the
\* commit raises "database is locked", and close_db rolls the write back
CommitOutcomes(t) == {FALSE} \cup {b \in {TRUE} : ReadLocked(t)}

\* c.execute("INSERT INTO access_requests ..."): the row is written in the
\* request's transaction, which takes the write lock
InsertRow(t) ==
    /\ pc[t] = "insert"
    /\ ~WriteHeld(t)
    /\ pc' = [pc EXCEPT ![t] = "insert_commit"]
    /\ UNCHANGED <<parsed, rdLeak, now, tz, ticks, store, swTxn, swView, group, cookie, csrf_token,
                   token_expiry, logins, fails, loc, opsLeft, sweeps, last, hist, swg>>

\* conn.commit() after the INSERT
InsertCommit(t) ==
    /\ pc[t] = "insert_commit"
    /\ \E locked \in CommitOutcomes(t) :
          IF locked
          THEN /\ store' = store
               /\ rdLeak' \in ReadRelease
               /\ Finish(t, "OperationalError")
          ELSE /\ store' = Append(store, Row(loc[t].ip, loc[t].exp))
               /\ rdLeak' = FALSE
               /\ Finish(t, "granted")
    /\ swView' = store'
    /\ UNCHANGED <<parsed, now, tz, ticks, swTxn, group, cookie, csrf_token,
                   token_expiry, logins, fails, opsLeft, sweeps, swg>>

\* the INSERT of a grant or the UPDATE of an extend while another connection
\* holds the write lock for longer than the timeout: sqlite3 raises "database
\* is locked" and the request ends with it
WriteLocked(t) ==
    /\ pc[t] \in {"insert", "update"}
    /\ WriteHeld(t)
    /\ swTxn' \in Release
    /\ Finish(t, "OperationalError")
    /\ UNCHANGED <<parsed, rdLeak, now, tz, ticks, store, swView, group, cookie, csrf_token,
                   token_expiry, logins, fails, opsLeft, sweeps, swg>>

(***************************************************************************)
(* Revoke (app.py 300-315): one DELETE and its commit, no router call.     *)
(***************************************************************************)
\* a variant of revoke whose DELETE matches no row
RevokeDeleteNone(tbl, ip) == tbl

RevokeDelete(tbl, ip) == SelectSeq(tbl, LAMBDA r : r.ip # ip)

\* c.execute("DELETE FROM access_requests WHERE ip = ?"): the rows go in the
\* request's transaction, which takes the write lock; while another
\* connection holds the lock for longer than the timeout the DELETE raises
Revoke(t, ip) ==
    /\ CanStart(t)
    /\ opsLeft' = opsLeft - 1
    /\ IF WriteHeld(t)
       THEN /\ swTxn' \in Release
            /\ last' = [op |-> "revoke", ip |-> ip, outcome |-> "OperationalError",
                        prior |-> hist[ip]]
            /\ hist' = [hist EXCEPT ![ip] = "OperationalError"]
            /\ UNCHANGED <<pc, loc>>
       ELSE /\ swTxn' = swTxn
            /\ pc' = [pc EXCEPT ![t] = "revoke_commit"]
            /\ loc' = [loc EXCEPT ![t] =
                         [LocInit EXCEPT !.op = "revoke", !.ip = ip, !.prior = hist[ip]]]
            /\ hist' = [hist EXCEPT ![ip] = "pending"]
            /\ last' = last
    /\ swg' = Touch(ip)
    /\ UNCHANGED <<parsed, rdLeak, now, tz, ticks, store, swView, group, cookie, csrf_token,
                   token_expiry, logins, fails, sweeps>>

\* conn.commit() after the DELETE
RevokeCommit(t) ==
    /\ pc[t] = "revoke_commit"
    /\ \E locked \in CommitOutcomes(t) :
          IF locked
          THEN /\ store' = store
               /\ rdLeak' \in ReadRelease
               /\ Finish(t, "OperationalError")
          ELSE /\ store' = RevokeDelete(store, loc[t].ip)
               /\ rdLeak' = FALSE
               /\ last' = [op |-> "revoke", ip |-> loc[t].ip, outcome |-> "revoked",
                           prior |-> loc[t].prior]
               /\ hist' = [hist EXCEPT ![loc[t].ip] =
                             IF HasRow(store, loc[t].ip) THEN "revoked" ELSE "revoked_absent"]
               /\ pc' = [pc EXCEPT ![t] = "idle"]
               /\ loc' = [loc EXCEPT ![t] = LocInit]
    /\ swView' = store'
    /\ UNCHANGED <<parsed, now, tz, ticks, swTxn, group, cookie, csrf_token,
                   token_expiry, logins, fails, opsLeft, sweeps, swg>>

(***************************************************************************)
(* Extend (app.py 317-345): SELECT, then UPDATE and its commit.            *)
(***************************************************************************)
FirstRow(tbl, ip) == tbl[CHOOSE i \in RowsOf(tbl, ip) : \A j \in RowsOf(tbl, ip) : i <= j]

\* a variant of extend that counts the delta from the current time
ExtendFromNow(row, delta) ==
    IF delta.some THEN isoformat(UtcNow + delta.v, TRUE) ELSE NULL

\* new_exp of lines 334-338 for a found row
ExtendNewExp(row, delta) ==
    IF delta.some
    THEN isoformat(fromisoformat(row.exp) + delta.v, row.exp.aware)
    ELSE NULL

ExtendSelect(t, ip, duration) ==
    /\ CanStart(t)
    /\ opsLeft' = opsLeft - 1
    /\ LET delta == get_expiration_delta(duration)
           started == [LocInit EXCEPT !.op = "extend", !.ip = ip, !.duration = duration,
                                       !.prior = hist[ip],
                                       !.rdlock = Cardinality(RowsOf(store, ip)) >= 2]
       IN  IF Leaked
           THEN \* the SELECT cannot read past the lock of a leaked connection
                /\ swTxn' \in Release
                /\ rdLeak' = rdLeak
                /\ last' = [op |-> "extend", ip |-> ip, outcome |-> "OperationalError",
                            prior |-> hist[ip]]
                /\ hist' = [hist EXCEPT ![ip] = "OperationalError"]
                /\ UNCHANGED <<pc, loc>>
           ELSE IF ~HasRow(store, ip)
           THEN \* no row: nothing is written and nothing is flashed
                /\ swTxn' = swTxn
                /\ rdLeak' = rdLeak
                /\ last' = [op |-> "extend", ip |-> ip, outcome |-> "silent",
                            prior |-> hist[ip]]
                /\ hist' = [hist EXCEPT ![ip] = "silent"]
                /\ UNCHANGED <<pc, loc>>
           ELSE IF delta.some /\ FirstRow(store, ip).exp.null
           THEN \* datetime.fromisoformat(None) raises TypeError; with rows left
                \* in the cursor, the cursor outlives close_db in the frame the
                \* exception refers to, and keeps its read lock
                /\ swTxn' = swTxn
                /\ rdLeak' \in {rdLeak} \cup {b \in {TRUE} : started.rdlock}
                /\ last' = [op |-> "extend", ip |-> ip, outcome |-> "TypeError",
                            prior |-> hist[ip]]
                /\ hist' = [hist EXCEPT ![ip] = "TypeError"]
                /\ UNCHANGED <<pc, loc>>
           ELSE /\ swTxn' = swTxn
                /\ rdLeak' = rdLeak
                /\ loc' = [loc EXCEPT ![t] =
                             [started EXCEPT !.exp = ExtendNewExp(FirstRow(store, ip), delta)]]
                /\ pc' = [pc EXCEPT ![t] = "update"]
                /\ hist' = [hist EXCEPT ![ip] = "pending"]
                /\ last' = last
    /\ swg' = Touch(ip)
    /\ UNCHANGED <<parsed, now, tz, ticks, store, swView, group, cookie, csrf_token,
                   token_expiry, logins, fails, sweeps>>

ExtendUpdateRows(tbl, ip, exp) ==
    [i \in 1..Len(tbl) |-> IF tbl[i].ip = ip THEN [tbl[i] EXCEPT !.exp = exp] ELSE tbl[i]]

\* c.execute("UPDATE access_requests SET expiration = ? WHERE ip = ?") on
\* the cursor of the SELECT: the cursor is reset, which gives up its read
\* lock, and the rows are written in the request's transaction, which takes
\* the write lock
ExtendUpdate(t) ==
    /\ pc[t] = "update"
    /\ ~WriteHeld(t)
    /\ pc' = [pc EXCEPT ![t] = "update_commit"]
    /\ loc' = [loc EXCEPT ![t].rdlock = FALSE]
    /\ UNCHANGED <<parsed, rdLeak, now, tz, ticks, store, swTxn, swView, group, cookie, csrf_token,
                   token_expiry, logins, fails, opsLeft, sweeps, last, hist, swg>>

\* conn.commit() after the UPDATE
ExtendCommit(t) ==
    /\ pc[t] = "update_commit"
    /\ \E locked \in CommitOutcomes(t) :
          IF locked
          THEN /\ store' = store
               /\ rdLeak' \in ReadRelease
               /\ Finish(t, "OperationalError")
          ELSE /\ store' = ExtendUpdateRows(store, loc[t].ip, loc[t].exp)
               /\ rdLeak' = FALSE
               /\ Finish(t, "extended")
    /\ swView' = store'
    /\ UNCHANGED <<parsed, now, tz, ticks, swTxn, group, cookie, csrf_token,
                   token_expiry, logins, fails, opsLeft, sweeps, swg>>

(***************************************************************************)
(* Sweeper: cleanup_expired_ips (app.py 207-226) calling                   *)
(* UnifiClient.remove_ip (unifi.py 133-160).                               *)
(***************************************************************************)
\* what the cycle records of the state it starts in
Revoked == {a \in Addresses : hist[a] = "revoked" /\ a \in group}
Due == {a \in Addresses :
          /\ hist[a] = "granted"
          /\ \E i \in RowsOf(store, a) : (~store[i].exp.null) /\ store[i].exp.t < now}
Selected == {store[i].ip : i \in {j \in 1..Len(store) : Expired(store[j])}}
SwgStart == [ok |-> TRUE, failed |-> {}, called |-> {}, revoked |-> Revoked, due |-> Due,
             selected |-> Selected, raised |-> {}, ended |-> "none",
             touched |-> {loc[t].ip : t \in {u \in FgThreads : pc[u] # "idle"}}]

\* SELECT ip FROM access_requests WHERE expiration < now; empty: nothing to do.
\* Behind the lock of a leaked connection the SELECT raises and the job ends
SweepStart ==
    /\ pc["sw"] = "idle"
    /\ sweeps < MaxSweeps
    /\ LET expired_ips == IpsOf(SelectSeq(store, Expired)) IN
       IF Leaked
       THEN /\ swTxn' \in Release
            /\ sweeps' = sweeps + 1
            /\ swg' = [SwgInit EXCEPT !.ended = "OperationalError"]
            /\ UNCHANGED <<pc, loc>>
       ELSE IF expired_ips = <<>>
       THEN /\ swTxn' = swTxn
            /\ sweeps' = sweeps + 1
            /\ swg' = [SwgInit EXCEPT !.ended = "returned"]
            /\ UNCHANGED <<pc, loc>>
       ELSE /\ swTxn' = swTxn
            /\ sweeps' = sweeps
            /\ pc' = [pc EXCEPT !["sw"] = "auth"]
            /\ loc' = [loc EXCEPT !["sw"] =
                         [LocInit EXCEPT !.op = "sweep", !.rest = expired_ips, !.ret = "first"]]
            /\ swg' = SwgStart
    /\ UNCHANGED <<parsed, rdLeak, now, tz, ticks, store, swView, group, cookie, csrf_token,
                   token_expiry, logins, fails, opsLeft, last, hist>>

\* remove_ip lines 153-154: the membership to write back
RemoveFilter(members, ip) == members \ {ip}

\* GET of the group succeeds
RemoveGetOk ==
    /\ pc["sw"] = "get" /\ loc["sw"].op = "sweep"
    /\ SessionValid
    /\ loc' = [loc EXCEPT !["sw"].members = RemoveFilter(group, loc["sw"].ip)]
    /\ pc' = [pc EXCEPT !["sw"] = "put"]
    /\ UNCHANGED <<parsed, rdLeak, now, tz, ticks, store, swTxn, swView, group, cookie, csrf_token,
                   token_expiry, logins, fails, opsLeft, sweeps, last, hist, swg>>

\* GET fails: the error is logged, then response.json() raises (response is
\* unbound or an error body); the sweeper's except clause prints and goes on
\* to the next address without deleting
\* a variant of the cycle in which an exception ends the loop
ExceptBreaksLoop == TRUE

\* app.py 222-223: the except clause prints, and the for loop goes on
ExceptBreaks == FALSE

RemoveGetFail ==
    /\ pc["sw"] = "get" /\ loc["sw"].op = "sweep"
    /\ MayFail(SessionValid)
    /\ fails' = fails + 1
    /\ LET l == IF ExceptBreaks THEN [loc["sw"] EXCEPT !.rest = <<>>] ELSE loc["sw"] IN
          /\ pc' = [pc EXCEPT !["sw"] = SwNextPc(l)]
          /\ loc' = [loc EXCEPT !["sw"] = SwNextLoc(l)]
          /\ swg' = SwNextCalled(l,
                       [swg EXCEPT !.ok = FALSE, !.failed = @ \cup {loc["sw"].ip},
                                   !.raised = @ \cup {loc["sw"].ip}])
    /\ UNCHANGED <<parsed, rdLeak, now, tz, ticks, store, swTxn, swView, group, cookie, csrf_token,
                   token_expiry, logins, opsLeft, sweeps, last, hist>>

\* PUT of the filtered membership succeeds
RemovePutOk ==
    /\ pc["sw"] = "put" /\ loc["sw"].op = "sweep"
    /\ WriteValid(loc["sw"].hdr)
    /\ group' = loc["sw"].members
    /\ pc' = [pc EXCEPT !["sw"] = "delete"]
    /\ UNCHANGED <<parsed, rdLeak, now, tz, ticks, store, swTxn, swView, cookie, csrf_token,
                   token_expiry, logins, fails, loc, opsLeft, sweeps, last, hist, swg>>

\* remove_ip lines 159-160: a failed PUT is logged and remove_ip returns normally
RemovePutFailRaises == FALSE

\* PUT fails
RemovePutFail ==
    /\ pc["sw"] = "put" /\ loc["sw"].op = "sweep"
    /\ MayFail(WriteValid(loc["sw"].hdr))
    /\ fails' = fails + 1
    /\ IF RemovePutFailRaises
       THEN /\ pc' = [pc EXCEPT !["sw"] = SwNextPc(loc["sw"])]
            /\ loc' = [loc EXCEPT !["sw"] = SwNextLoc(loc["sw"])]
            /\ swg' = SwNextCalled(loc["sw"],
                         [swg EXCEPT !.ok = FALSE, !.failed = @ \cup {loc["sw"].ip}])
       ELSE /\ pc' = [pc EXCEPT !["sw"] = "delete"]
            /\ loc' = loc
            /\ swg' = [swg EXCEPT !.ok = FALSE, !.failed = @ \cup {loc["sw"].ip}]
    /\ UNCHANGED <<parsed, rdLeak, now, tz, ticks, store, swTxn, swView, group, cookie, csrf_token,
                   token_expiry, logins, opsLeft, sweeps, last, hist>>

\* DELETE FROM access_requests WHERE expiration < now, on the sweeper's
\* connection: every expired row goes, and the transaction stays open
SweepDeleteRows(tbl) == SelectSeq(tbl, NotExpired)

\* While a request holds the write lock for longer than the timeout the
\* DELETE raises "database is locked": the except clause prints, no row goes,
\* no lock is taken and the loop goes on
SweepDelete ==
    /\ pc["sw"] = "delete"
    /\ IF WriteHeld("sw")
       THEN /\ UNCHANGED <<swView, swTxn>>
            /\ swg' = SwNextCalled(loc["sw"], [swg EXCEPT !.raised = @ \cup {loc["sw"].ip}])
       ELSE /\ swView' = SweepDeleteRows(SwDb)
            /\ swTxn' = TRUE
            /\ swg' = SwNextCalled(loc["sw"], swg)
    /\ pc' = [pc EXCEPT !["sw"] = SwNextPc(loc["sw"])]
    /\ loc' = [loc EXCEPT !["sw"] = SwNextLoc(loc["sw"])]
    /\ UNCHANGED <<parsed, rdLeak, now, tz, ticks, store, group, cookie, csrf_token,
                   token_expiry, logins, fails, opsLeft, sweeps, last, hist>>

\* conn.commit(); conn.close().  While a request holds a read lock the commit
\* waits; when the lock outlasts sqlite3's timeout (the request's thread is
\* held between its SELECT and its UPDATE, or its cursor was left behind), "database is locked" leaves
\* cleanup_expired_ips and conn.close() is skipped: the connection keeps its
\* lock until the garbage collector closes it, at once or later, and the open
\* transaction is rolled back with it
SweepCommit ==
    /\ pc["sw"] = "commit"
    /\ \E locked \in {FALSE} \cup {b \in {TRUE} : swTxn /\ ReadLocked("sw")} :
          /\ store' = IF locked THEN store ELSE SwDb
          /\ swTxn' \in IF locked THEN BOOLEAN ELSE {FALSE}
          /\ rdLeak' \in IF locked THEN ReadRelease ELSE {rdLeak /\ ~swTxn}
          /\ swg' = [SwgInit EXCEPT !.ended = IF locked THEN "OperationalError" ELSE "returned"]
    /\ swView' = store'
    /\ sweeps' = sweeps + 1
    /\ pc' = [pc EXCEPT !["sw"] = "idle"]
    /\ loc' = [loc EXCEPT !["sw"] = LocInit]
    /\ UNCHANGED <<parsed, now, tz, ticks, group, cookie, csrf_token,
                   token_expiry, logins, fails, opsLeft, last, hist>>

(***************************************************************************)
(* The system.                                                             *)
(***************************************************************************)
Next ==
    \/ Tick
    \/ \E t \in Threads : EnsureAuthenticated(t)
    \/ \E t \in Threads : LoginPost(t)
    \/ \E t \in Threads : LoginPostOk(t)
    \/ \E t \in Threads : LoginPostFail(t)
    \/ \E t \in Threads : LoginCookie(t)
    \/ \E t \in Threads : LoginCsrf(t)
    \/ \E t \in Threads : LoginExp(t)
    \/ \E t \in Threads : Headers(t)
    \/ \E ip \in Addresses, d \in EXPIRATION_OPTIONS, t \in FgThreads : Grant(t, ip, d)
    \/ \E t \in FgThreads : AddGetOk(t)
    \/ \E t \in FgThreads : AddGetFail(t)
    \/ \E t \in FgThreads : AddPutOk(t)
    \/ \E t \in FgThreads : AddPutFail(t)
    \/ \E t \in FgThreads : InsertRow(t)
    \/ \E t \in FgThreads : InsertCommit(t)
    \/ \E t \in FgThreads : WriteLocked(t)
    \/ \E ip \in Addresses, t \in FgThreads : Revoke(t, ip)
    \/ \E t \in FgThreads : RevokeCommit(t)
    \/ \E ip \in Addresses, d \in EXPIRATION_OPTIONS, t \in FgThreads : ExtendSelect(t, ip, d)
    \/ \E t \in FgThreads : ExtendUpdate(t)
    \/ \E t \in FgThreads : ExtendCommit(t)
    \/ SweepStart
    \/ RemoveGetOk
    \/ RemoveGetFail
    \/ RemovePutOk
    \/ RemovePutFail
    \/ SweepDelete
    \/ SweepCommit

Spec == Init /\ [][Next]_vars

\* the same system on a host whose local time is UTC
InitUtc == InitWith({0}, MaxOps)
SpecUtc == InitUtc /\ [][Next]_vars

(***************************************************************************)
(* The requests alone: up to two in flight at a time, the clock advancing  *)
(* between them, and no sweeper cycle.                                     *)
(***************************************************************************)
ReqNext == Next /\ pc'["sw"] = "idle" /\ sweeps' = sweeps

SpecReq == Init /\ [][ReqNext]_vars

(***************************************************************************)
(* One request at a time beside the sweeper: a request starts only when    *)
(* no other is in flight, and overlaps the sweeper cycle freely.           *)
(***************************************************************************)
OneNext == Next /\ (opsLeft' # opsLeft => pc["fg"] = "idle")

SpecOne == Init /\ [][OneNext]_vars

(***************************************************************************)
(* The system without overlap: a foreground request and a sweeper cycle    *)
(* each run to completion, and time passes only between them.              *)
(***************************************************************************)
FgIdle == \A t \in FgThreads : pc[t] = "idle"
SwIdle == pc["sw"] = "idle"

SeqNext ==
    \/ FgIdle /\ SwIdle /\ Tick
    \/ SwIdle /\ EnsureAuthenticated("fg")
    \/ SwIdle /\ LoginPost("fg")
    \/ SwIdle /\ LoginPostOk("fg")
    \/ SwIdle /\ LoginPostFail("fg")
    \/ SwIdle /\ LoginCookie("fg")
    \/ SwIdle /\ LoginCsrf("fg")
    \/ SwIdle /\ LoginExp("fg")
    \/ SwIdle /\ Headers("fg")
    \/ SwIdle /\ \E ip \in Addresses, d \in EXPIRATION_OPTIONS : Grant("fg", ip, d)
    \/ SwIdle /\ AddGetOk("fg")
    \/ SwIdle /\ AddGetFail("fg")
    \/ SwIdle /\ AddPutOk("fg")
    \/ SwIdle /\ AddPutFail("fg")
    \/ SwIdle /\ InsertRow("fg")
    \/ SwIdle /\ InsertCommit("fg")
    \/ SwIdle /\ \E ip \in Addresses : Revoke("fg", ip)
    \/ SwIdle /\ RevokeCommit("fg")
    \/ SwIdle /\ \E ip \in Addresses, d \in EXPIRATION_OPTIONS : ExtendSelect("fg", ip, d)
    \/ SwIdle /\ ExtendUpdate("fg")
    \/ SwIdle /\ ExtendCommit("fg")
    \/ FgIdle /\ SweepStart
    \/ FgIdle /\ EnsureAuthenticated("sw")
    \/ FgIdle /\ LoginPost("sw")
    \/ FgIdle /\ LoginPostOk("sw")
    \/ FgIdle /\ LoginPostFail("sw")
    \/ FgIdle /\ LoginCookie("sw")
    \/ FgIdle /\ LoginCsrf("sw")
    \/ FgIdle /\ LoginExp("sw")
    \/ FgIdle /\ Headers("sw")
    \/ FgIdle /\ RemoveGetOk
    \/ FgIdle /\ RemoveGetFail
    \/ FgIdle /\ RemovePutOk
    \/ FgIdle /\ RemovePutFail
    \/ FgIdle /\ SweepDelete
    \/ FgIdle /\ SweepCommit

\* any host time zone
InitSeq == InitWith(TzOffsets, MaxOps)
SpecSeq == InitSeq /\ [][SeqNext]_vars

\* a host whose local time is UTC, and one more foreground request
InitSeqUtc == InitWith({0}, MaxOps + 1)
SpecSeqUtc == InitSeqUtc /\ [][SeqNext]_vars

(***************************************************************************)
(* The system started anew (host in UTC) on what an earlier run left       *)
(* behind: the table on disk holds one row that has expired an hour ago,   *)
(* and the router group holds any set of addresses, with or without the    *)
(* address of that row (a write of a stale membership list, or a change    *)
(* made on the router itself, takes an address out of the group while its  *)
(* row stays).  The client starts with no token, as after construction.    *)
(***************************************************************************)
InitRestart ==
    /\ now = StartTime
    /\ tz = 0
    /\ ticks = 0
    /\ \E a \in Addresses : store = <<Row(a, adapt_datetime(StartTime - Hour, TRUE))>>
    /\ swTxn = FALSE
    /\ swView = store
    /\ rdLeak = FALSE
    /\ group \in SUBSET Addresses
    /\ cookie = NoToken
    /\ csrf_token = 0
    /\ token_expiry = 0
    /\ logins = 0
    /\ fails = 0
    /\ pc = [t \in Threads |-> "idle"]
    /\ loc = [t \in Threads |-> LocInit]
    /\ opsLeft = MaxOps
    /\ sweeps = 0
    /\ last = NoResult
    /\ hist = [a \in Addresses |-> "none"]
    /\ swg = SwgInit
    /\ parsed = NoParse

SpecRestart == InitRestart /\ [][OneNext]_vars

(***************************************************************************)
(* get_expiration_delta called on its own, on any token.                   *)
(***************************************************************************)
ParseCall(d) ==
    /\ parsed' = [called |-> TRUE, token |-> d, delta |-> get_expiration_delta(d)]
    /\ UNCHANGED <<now, tz, ticks, store, swTxn, swView, rdLeak, group, cookie, csrf_token,
                   token_expiry, logins, fails, pc, loc, opsLeft, sweeps, last, hist, swg>>

ParseNext == \E d \in Tokens : ParseCall(d)

SpecParse == InitUtc /\ [][ParseNext]_vars

(***************************************************************************)
(* The system without overlap on a host in UTC, with the clock also able   *)
(* to stop at the edge of the skew window of a token issued at the start:  *)
(* exactly Skew seconds before that token expires.                         *)
(***************************************************************************)
SkewSteps == {TokenLife - Skew}

SkewTick ==
    /\ \A t \in FgThreads : pc[t] = "idle"
    /\ ticks < MaxTicks
    /\ \E d \in SkewSteps : now' = now + d
    /\ ticks' = ticks + 1
    /\ UNCHANGED <<parsed, rdLeak, tz, store, swTxn, swView, group, cookie, csrf_token,
                   token_expiry, logins, fails, pc, loc, opsLeft, sweeps, last, hist, swg>>

SkewNext ==
    \/ SwIdle /\ SkewTick
    \/ SeqNext

SpecSkew == InitUtc /\ [][SkewNext]_vars

(***************************************************************************)
(* Vocabulary of the properties.                                           *)
(***************************************************************************)
Count(tbl, r) == Cardinality({i \in 1..Len(tbl) : tbl[i] = r})
RowValues(tbl) == {tbl[i] : i \in 1..Len(tbl)}
\* rows of tbl that are no longer in tbl2
Deleted(tbl, tbl2) == {r \in RowValues(tbl) : Count(tbl2, r) < Count(tbl, r)}

\* the step in which the running grant returns to its caller
GrantDone(t) == loc[t].op = "grant" /\ pc[t] # "idle" /\ pc'[t] = "idle"
\* the step in which the running grant gets the answer of a router call
GrantCallFails(t) ==
    /\ loc[t].op = "grant" /\ pc[t] \in {"get", "put"}
    /\ pc'[t] # pc[t] /\ fails' = fails + 1
GrantFetchOk(t) ==
    /\ loc[t].op = "grant" /\ pc[t] = "get"
    /\ pc'[t] # pc[t] /\ fails' = fails
\* the step in which the sweeper executes its DELETE
DeleteStep == pc["sw"] = "delete" /\ pc'["sw"] # "delete"
\* the step in which a sweeper cycle ends, and what the cycle recorded
CycleEnd == sweeps' = sweeps + 1
CycleRecord == IF pc["sw"] = "idle" THEN SwgStart ELSE swg

Succeeded == {"granted", "already_present"}

(***************************************************************************)
(* C1.  The record store holds at most one row per address in every        *)
(* reachable state.                                                        *)
(***************************************************************************)
C1_AtMostOneRowPerAddress ==
    \A a \in Addresses : Cardinality(RowsOf(store, a)) <= 1

(***************************************************************************)
(* C2.  An address that was revoked while in the router group is absent    *)
(* from the group when the next sweeper cycle, with every router call      *)
(* succeeding, ends.                                                       *)
(***************************************************************************)
C2_RevokedRemovedBySweep ==
    [][(CycleEnd /\ CycleRecord.ok) =>
          \A a \in CycleRecord.revoked \ CycleRecord.touched : a \notin group']_vars

(***************************************************************************)
(* C3.  A grant that follows a revoke of an address that had a row, and    *)
(* that does not fail, leaves exactly one row for the address, with the    *)
(* expiration computed by that grant.                                      *)
(***************************************************************************)
C3_RegrantOneFreshRow ==
    [][\A t \in FgThreads :
        (GrantDone(t) /\ loc[t].prior = "revoked" /\ last'.outcome \in Succeeded) =>
          /\ Cardinality(RowsOf(store', loc[t].ip)) = 1
          /\ \A i \in RowsOf(store', loc[t].ip) : store'[i].exp = loc[t].exp]_vars

(***************************************************************************)
(* C4.  Every row the sweeper's DELETE removes belongs to an address whose *)
(* router removal was called and did not fail in this cycle, and which is  *)
(* not in the router group.                                                *)
(***************************************************************************)
C4_DeletedRowsWereRemoved ==
    [][DeleteStep =>
          \A r \in Deleted(SwDb, swView') :
              r.ip \in (swg.called \ swg.failed) /\ r.ip \notin group]_vars

(***************************************************************************)
(* C5 as stated.  A grant of an address whose previous request was a       *)
(* successful grant (no revoke in between) reports already_present and the *)
(* store holds at most one row for the address.                            *)
(***************************************************************************)
C5_SecondGrantAlreadyPresent ==
    [][\A t \in FgThreads :
        (GrantDone(t) /\ loc[t].prior \in Succeeded /\ last'.outcome \in Succeeded) =>
          /\ last'.outcome = "already_present"
          /\ Cardinality(RowsOf(store', loc[t].ip)) <= 1]_vars

(***************************************************************************)
(* C5 as amended.  A grant of an address whose previous request was a      *)
(* successful grant, and which the router still reports as a member when   *)
(* this grant fetches the group, inserts no row, writes nothing to the     *)
(* router and reports already_present.                                     *)
(***************************************************************************)
C5_SecondGrantOfMember ==
    [][\A t \in FgThreads :
        (GrantFetchOk(t) /\ loc[t].prior \in Succeeded /\ loc[t].ip \in group) =>
          /\ pc'[t] = "idle"
          /\ last' = [op |-> "grant", ip |-> loc[t].ip,
                      outcome |-> "already_present", prior |-> loc[t].prior]
          /\ store' = store]_vars

C5_Witness ==
    /\ last.op = "grant" /\ last.outcome = "already_present"
    /\ last.prior = "granted"
    /\ Cardinality(RowsOf(store, last.ip)) = 1

(***************************************************************************)
(* C6.  Every row the sweeper's DELETE removes has an expiration, and that *)
(* expiration is strictly earlier than the current time.                   *)
(***************************************************************************)
C6_DeletedRowsAreExpired ==
    [][DeleteStep =>
          \A r \in Deleted(SwDb, swView') : (~r.exp.null) /\ r.exp.t < now]_vars

(***************************************************************************)
(* C7.  When a sweeper cycle ends, an address whose router removal failed  *)
(* in the cycle and that is still in the router group still has a row in   *)
(* the store.                                                              *)
(***************************************************************************)
C7_FailedRemovalKeepsRow ==
    [][CycleEnd =>
          \A a \in CycleRecord.failed \ CycleRecord.touched :
              a \in group' => HasRow(store', a)]_vars

(***************************************************************************)
(* C8.  When a sweeper cycle whose router calls all succeeded ends, every  *)
(* address that was granted a timed entry, not touched since, and whose    *)
(* expiration the clock had passed when the cycle started, had router      *)
(* remove called for it, has no row and is not in the router group.        *)
(***************************************************************************)
C8_ExpiredEntrySwept ==
    [][(CycleEnd /\ CycleRecord.ok) =>
          \A a \in CycleRecord.due \ CycleRecord.touched :
              /\ a \in CycleRecord.called
              /\ ~HasRow(store', a)
              /\ a \notin group']_vars

(***************************************************************************)
(* C9.  When the group fetch or the group write of a grant fails, the      *)
(* grant ends there with an error and the store is unchanged.              *)
(***************************************************************************)
C9_FailedAddPersistsNothing ==
    [][\A t \in FgThreads :
        GrantCallFails(t) =>
          /\ store' = store
          /\ pc'[t] = "idle"
          /\ last'.op = "grant" /\ last'.outcome \notin Succeeded]_vars

C9_Witness ==
    /\ last.op = "grant" /\ last.outcome = "NameError"
    /\ fails > 0
    /\ ~HasRow(store, last.ip)

(***************************************************************************)
(* C10.  When the group a grant fetches already contains the address, the  *)
(* grant writes nothing to the router, leaves the store unchanged and      *)
(* reports already_present.                                                *)
(***************************************************************************)
C10_MemberGrantChangesNothing ==
    [][\A t \in FgThreads :
        (GrantFetchOk(t) /\ loc[t].ip \in group) =>
          /\ group' = group
          /\ store' = store
          /\ pc'[t] = "idle"
          /\ last'.op = "grant" /\ last'.outcome = "already_present"]_vars

C10_Witness ==
    /\ last.op = "grant" /\ last.outcome = "already_present"
    /\ last.ip \in group
    /\ FgIdle

(***************************************************************************)
(* Vocabulary of the properties on revoke and extend.                      *)
(***************************************************************************)
\* the rows of address a, in table order
RowsFor(tbl, a) == SelectSeq(tbl, LAMBDA r : r.ip = a)

\* the step in which thread t executes the DELETE of a revoke
RevokeBegins(t) == pc[t] = "idle" /\ pc'[t] = "revoke_commit"
\* the step in which a revoke request ends: its commit, or a DELETE that raised
RevokeStep ==
    /\ last'.op = "revoke"
    /\ \/ \E t \in FgThreads : pc[t] = "revoke_commit" /\ pc'[t] = "idle"
       \/ opsLeft' = opsLeft - 1 /\ pc' = pc
\* what a step leaves of the router group and of the client's session
RouterSide == <<group, cookie, csrf_token, token_expiry, logins, fails>>

(***************************************************************************)
(* C11.  A revoke makes no router call and changes neither the router      *)
(* group, nor the session state, nor the rows of any other address; unless *)
(* it ends with an exception, no row of its address is left.               *)
(***************************************************************************)
C11_RevokeDeletesOnlyItsRows ==
    [][/\ \A t \in FgThreads :
            /\ loc'[t].op = "revoke" => pc'[t] = "revoke_commit"
            /\ RevokeBegins(t) => RouterSide' = RouterSide /\ store' = store
       /\ RevokeStep =>
            /\ RouterSide' = RouterSide
            /\ \A a \in Addresses \ {last'.ip} : RowsFor(store', a) = RowsFor(store, a)
            /\ last'.outcome = "revoked" => ~HasRow(store', last'.ip)]_vars

C11_Witness ==
    /\ last.op = "revoke" /\ last.outcome = "revoked" /\ last.prior = "granted"
    /\ hist[last.ip] = "revoked"
    /\ ~HasRow(store, last.ip)
    /\ last.ip \in group

(***************************************************************************)
(* C12.  A revoke of an address that has no row reports not_found and      *)
(* leaves the store unchanged.                                             *)
(***************************************************************************)
C12_RevokeAbsentNotFound ==
    [][(RevokeStep /\ ~HasRow(store, last'.ip)) =>
          /\ last'.outcome = "not_found"
          /\ store' = store]_vars

\* extend's SELECT found a row and new_exp is computed
ExtendRead(t) == pc[t] = "idle" /\ pc'[t] = "update"
\* the commit of extend's UPDATE goes through
ExtendWrite(t) == pc[t] = "update_commit" /\ pc'[t] = "idle" /\ last'.outcome = "extended"
\* the step in which an extend request ends
ExtendEnd ==
    /\ last'.op = "extend"
    /\ \/ \E t \in FgThreads : pc[t] \in {"update", "update_commit"} /\ pc'[t] = "idle"
       \/ opsLeft' = opsLeft - 1 /\ pc' = pc

(***************************************************************************)
(* C13 as stated.  An extend of a timed entry, whatever the accepted token,*)
(* leaves the entry with an expiration that is the stored one plus the     *)
(* parsed delta, and strictly later than it.                               *)
(***************************************************************************)
C13_ExtendAddsDelta ==
    [][\A t \in FgThreads :
        (ExtendWrite(t) /\ HasRow(store, loc[t].ip)
                    /\ ~FirstRow(store, loc[t].ip).exp.null) =>
          LET delta == get_expiration_delta(loc[t].duration)
              old == FirstRow(store, loc[t].ip).exp
          IN  \A i \in RowsOf(store', loc[t].ip) :
                  /\ delta.some
                  /\ ~store'[i].exp.null
                  /\ store'[i].exp.t = old.t + delta.v
                  /\ store'[i].exp.t > old.t]_vars

(***************************************************************************)
(* C13 as amended.  For a token with a delta, the expiration extend        *)
(* computes from a timed entry is the stored expiration its SELECT read    *)
(* plus that delta, not counted from the current time; for the forever     *)
(* token it is no expiration; and the UPDATE gives every row of the        *)
(* address the computed expiration.                                        *)
(***************************************************************************)
C13_ExtendCompounds ==
    [][\A t \in FgThreads :
       /\ (ExtendRead(t) /\ ~FirstRow(store, loc'[t].ip).exp.null) =>
             LET delta == get_expiration_delta(loc'[t].duration)
                 old == FirstRow(store, loc'[t].ip).exp
             IN  IF delta.some
                 THEN /\ ~loc'[t].exp.null
                      /\ loc'[t].exp.t = old.t + delta.v
                      /\ loc'[t].exp.t >= old.t
                 ELSE loc'[t].exp.null
       /\ ExtendWrite(t) =>
             \A i \in RowsOf(store', loc[t].ip) : store'[i].exp = loc[t].exp]_vars

C13_Witness ==
    /\ last.op = "extend" /\ last.outcome = "extended"
    /\ now > StartTime
    /\ \E i \in RowsOf(store, last.ip) :
          /\ ~store[i].exp.null
          /\ store[i].exp.sep = "T"
          /\ store[i].exp.t < now + Hour

(***************************************************************************)
(* C14.  An extend of a forever-entry ends as an extend, not as an error,  *)
(* and the entry still has no expiration.                                  *)
(***************************************************************************)
C14_ExtendForeverNoOp ==
    [][(ExtendEnd /\ HasRow(store, last'.ip) /\ FirstRow(store, last'.ip).exp.null) =>
          /\ last'.outcome = "extended"
          /\ \A i \in RowsOf(store', last'.ip) : store'[i].exp.null]_vars

(***************************************************************************)
(* C15.  An extend of an address that has no row reports not_found and     *)
(* changes neither the store nor the router group.                         *)
(***************************************************************************)
C15_ExtendAbsentNotFound ==
    [][(ExtendEnd /\ ~HasRow(store, last'.ip)) =>
          /\ last'.outcome = "not_found"
          /\ store' = store
          /\ group' = group]_vars

(***************************************************************************)
(* Vocabulary of the properties on the router session.                     *)
(***************************************************************************)
\* thread t issues the group write of add_ip or remove_ip
PutStep(t) == pc[t] = "put" /\ pc'[t] # "put"
\* thread t's login request fails and login returns
LoginFailed(t) == pc[t] = "login_post" /\ pc'[t] \notin {"login_post", "login_answer"}

(***************************************************************************)
(* C16.  A group write is issued only by a thread whose last               *)
(* ensure_authenticated either found the clock before token_expiry - Skew  *)
(* or completed a login.                                                   *)
(***************************************************************************)
C16_WriteOnlyWhenAuthenticated ==
    [][\A t \in Threads : PutStep(t) => loc[t].authed \in {"valid", "login"}]_vars

(***************************************************************************)
(* C17.  After a failed login the thread does not go on into add_ip or     *)
(* remove_ip (building the headers, fetching and writing the group).       *)
(***************************************************************************)
C17_LoginFailureStopsCall ==
    [][\A t \in Threads : LoginFailed(t) => pc'[t] # "hdr"]_vars

(***************************************************************************)
(* C18.  A failed login leaves csrf_token and token_expiry as they were.   *)
(***************************************************************************)
C18_FailedLoginKeepsToken ==
    [][(\E t \in Threads : LoginFailed(t)) =>
          /\ csrf_token' = csrf_token
          /\ token_expiry' = token_expiry]_vars

C18_Witness ==
    \E t \in Threads :
        /\ pc[t] = "hdr" /\ loc[t].authed = "failed"
        /\ csrf_token # 0 /\ token_expiry # 0
        /\ csrf_token = cookie.id /\ token_expiry = cookie.exp

(***************************************************************************)
(* C20.  get_expiration_delta returns n times the unit (1 hour, 1 day,     *)
(* 7 days, 30 days, 365 days) for a token made of the digits of n followed *)
(* by one of h, d, w, m, y, no duration for "0f", and one day for every    *)
(* other token.                                                            *)
(***************************************************************************)
C20_ParserByCases ==
    parsed.called =>
        LET s == parsed.token
            k == Len(s) - 1
        IN  IF k >= 1 /\ (\A i \in 1..k : IsDigit(s[i])) /\ s[k + 1] \in {"h", "d", "w", "m", "y"}
            THEN parsed.delta =
                   Some(ParseInt(s, k) *
                        (CASE s[k + 1] = "h" -> Hour
                           [] s[k + 1] = "d" -> Day
                           [] s[k + 1] = "w" -> 7 * Day
                           [] s[k + 1] = "m" -> 30 * Day
                           [] s[k + 1] = "y" -> 365 * Day))
            ELSE IF s = <<"0", "f">> THEN parsed.delta = None
            ELSE parsed.delta = Some(Day)

\* remove_ip's GET of the group succeeds
RemoveFetchOk == pc["sw"] = "get" /\ pc'["sw"] # "get" /\ fails' = fails

(***************************************************************************)
(* C19.  When the group remove_ip fetches does not contain the address,    *)
(* remove_ip issues no write; and a write issued for an address that is    *)
(* not in the group leaves the group as it is.                             *)
(***************************************************************************)
C19_RemoveAbsentWritesNothing ==
    [][/\ (RemoveFetchOk /\ loc["sw"].ip \notin group) => pc'["sw"] # "put"
       /\ (PutStep("sw") /\ loc["sw"].ip \notin group) => group' = group]_vars

\* thread t is inside UnifiClient.login
InLogin(t) == pc[t] \in {"login_post", "login_answer", "login_cookie", "login_csrf", "login_exp"}

(***************************************************************************)
(* C21.  Once no thread is inside login, the stored anti-forgery token and *)
(* the stored token expiry come from the same successful login: when the   *)
(* stored anti-forgery token is the one of the token in the cookie jar,    *)
(* the stored expiry is the expiry of that token.                          *)
(***************************************************************************)
C21_TokenFieldsFromOneLogin ==
    ((\A t \in Threads : ~InLogin(t)) /\ csrf_token # 0 /\ csrf_token = cookie.id)
        => token_expiry = cookie.exp

\* conn.commit() at the end of a cycle that called the router
CommitStep == pc["sw"] = "commit" /\ pc'["sw"] = "idle"

(***************************************************************************)
(* C22.  A sweeper cycle in which the removal of an address raised still   *)
(* calls remove_ip for every address it selected at its start, and its     *)
(* commit, unless it ends with "database is locked", makes the rows the   *)
(* cycle purged leave the table.                                           *)
(***************************************************************************)
C22_ExceptionKeepsBatchGoing ==
    [][(CommitStep /\ swg.raised # {}) =>
          /\ swg.called = swg.selected
          /\ swg'.ended = "returned" => store' = SwDb]_vars

\* the cycle is at its commit with a purge pending: the removal of the
\* address of the first row raised, and the removal of the address of the
\* second row, selected with it, went through after that
C22_Witness ==
    /\ pc["sw"] = "commit"
    /\ swTxn /\ swView # store
    /\ Len(store) = 2
    /\ swg.selected = {store[1].ip, store[2].ip}
    /\ swg.raised = {store[1].ip}
    /\ store[2].ip \in swg.called \ swg.failed
    /\ store[2].ip \notin group

(***************************************************************************)
(* C23.  Whenever no request and no sweeper cycle is under way, every      *)
(* address that has a row in the table is a member of the router group.    *)
(***************************************************************************)
C23_RowsAreMembers ==
    (FgIdle /\ SwIdle) => \A i \in 1..Len(store) : store[i].ip \in group

====
